---- MODULE Spec2Model ----
(***************************************************************************)
(* The credential session manager of s3bucket_ext_rename.py (SecureSession *)
(* and the Flask handlers that use it), as a state machine.                *)
(*                                                                         *)
(* State: the session store (SecureSession.sessions), the wall clock read  *)
(* by datetime.now(), the provider client the legacy form flow keeps in    *)
(* app.config, and the record of the last request served (its inputs, the  *)
(* HTTP response, and what the handler did with the storage provider).     *)
(* Each action is one request handler run from its first line to its       *)
(* response.                                                               *)
(*                                                                         *)
(* Flask serves requests on concurrent threads and SecureSession takes no  *)
(* lock. For the properties that depend on it, threads holds the position  *)
(* and the locals of each thread inside a SecureSession method, one step   *)
(* per statement, and orphans the session dicts that left the store while  *)
(* a thread still holds a reference to them. shadow is the store of the    *)
(* same run of calls with its cleanup_expired_sessions calls left out.     *)
(* sweep holds the locals of a thread inside cleanup_expired_sessions, and *)
(* job the keys, the provider's answers and the counters of a handler that *)
(* works through a list of keys.                                           *)
(*                                                                         *)
(* Python values: None is the string "None" where the value is a string    *)
(* (a session id, a key), and the record NoCredentials where the value is  *)
(* a credential bundle (the result of get_credentials).                    *)
(***************************************************************************)
EXTENDS Integers, Sequences, FiniteSets, TLC

VARIABLES sessions, now, app_config, last, threads, orphans, shadow, sweep, job

vars == <<sessions, now, app_config, last, threads, orphans, shadow, sweep, job>>

----------------------------------------------------------------------------
(* Bounds and input sets *)

\* Size of the space secrets.token_urlsafe(32) draws session ids from.
NumHandles == 2

\* Number of request threads inside SecureSession at a time.
NumThreads == 2

Threads == 1..NumThreads

\* The number of times the clock moves on by just under the timeout.
MaxTouches == 2

\* The number of full blocks of keys under a prefix.
MaxBlocks == 2

\* The length of the longest list of selected keys.
MaxKeys == 2

HandleNames == <<"tok_a", "tok_b", "tok_c", "tok_d", "tok_e">>

Handles == {HandleNames[i] : i \in 1..NumHandles}

\* Instants at which datetime.now() is read (seconds since process start):
\* idle times of exactly the timeout (0 to 3600), of a day, an hour and a
\* second (0 to 90001) and of a day and a second (3600 to 90001) occur.
Instants == {0, 3600, 90001}

None == "None"

\* self.session_timeout
session_timeout == 3600

\* timedelta.seconds is the seconds component of a timedelta, in 0..86399.
SecondsPerDay == 86400

DefaultRegion == "us-east-1"

Bundle(ak, sk, tok, region) ==
    [access_key |-> ak, secret_key |-> sk, session_token |-> tok, region |-> region]

\* Python None where a credential bundle is expected.
NoCredentials == Bundle(None, None, None, None)

\* The credential bundles the provider's identity check accepts.
ProviderAccounts ==
    { Bundle("AKIA1", "secret1", None, DefaultRegion),
      Bundle("AKIA2", "secret2", "sts-token", DefaultRegion) }

\* Python truthiness of a string-or-None value.
Falsy(x) == x \in {None, ""}

----------------------------------------------------------------------------
(* SecureSession *)

\* (datetime.now() - last_accessed).seconds
TimedeltaSeconds(t, since) == (t - since) % SecondsPerDay

\* The expiry test of get_credentials and cleanup_expired_sessions.
Expired(session_data, t) ==
    TimedeltaSeconds(t, session_data.last_accessed) > session_timeout

\* A faulty invalidate_session that leaves the session in the store; C5 must
\* tell it from the real one.
invalidate_session_keeping(S, session_id) == S

\* A faulty invalidate_session that empties the store; C28 must tell it from
\* the real one.
invalidate_session_clearing(S, session_id) ==
    IF session_id \in DOMAIN S
    THEN [h \in {} |-> S[h]]
    ELSE S

\* SecureSession.invalidate_session
invalidate_session(S, session_id) ==
    IF session_id \in DOMAIN S
    THEN [h \in DOMAIN S \ {session_id} |-> S[h]]
    ELSE S

\* A faulty create_session that stores the bundle without its session
\* token; C1 must tell it from the real one.
create_session_dropping_token(S, credentials, t, token) ==
    LET session_data == [credentials |-> [credentials EXCEPT !.session_token = None],
                         created_at |-> t,
                         last_accessed |-> t]
    IN [sessions |-> [h \in DOMAIN S \cup {token} |->
                         IF h = token THEN session_data ELSE S[h]],
        session_id |-> token]

\* SecureSession.create_session; token is the value secrets.token_urlsafe
\* returned.
create_session(S, credentials, t, token) ==
    LET session_data == [credentials |-> credentials,
                         created_at |-> t,
                         last_accessed |-> t]
    IN [sessions |-> [h \in DOMAIN S \cup {token} |->
                         IF h = token THEN session_data ELSE S[h]],
        session_id |-> token]

\* A faulty get_credentials that returns the bundle of one fixed session of
\* the store rather than of the session asked for; C7 must tell it from the
\* real one.
get_credentials_of_any(S, session_id, t) ==
    IF Falsy(session_id) \/ session_id \notin DOMAIN S
    THEN [sessions |-> S, credentials |-> NoCredentials]
    ELSE IF Expired(S[session_id], t)
         THEN [sessions |-> invalidate_session(S, session_id),
               credentials |-> NoCredentials]
         ELSE [sessions |-> [S EXCEPT ![session_id].last_accessed = t],
               credentials |-> S[CHOOSE k \in DOMAIN S : TRUE].credentials]

\* A faulty get_credentials that refreshes created_at instead of
\* last_accessed; C16 must tell it from the real one.
get_credentials_touching_created(S, session_id, t) ==
    IF Falsy(session_id) \/ session_id \notin DOMAIN S
    THEN [sessions |-> S, credentials |-> NoCredentials]
    ELSE IF Expired(S[session_id], t)
         THEN [sessions |-> invalidate_session(S, session_id),
               credentials |-> NoCredentials]
         ELSE [sessions |-> [S EXCEPT ![session_id].created_at = t],
               credentials |-> S[session_id].credentials]

\* A faulty get_credentials that returns the bundle without refreshing
\* last_accessed; C23 must tell it from the real one.
get_credentials_not_touching(S, session_id, t) ==
    IF Falsy(session_id) \/ session_id \notin DOMAIN S
    THEN [sessions |-> S, credentials |-> NoCredentials]
    ELSE IF Expired(S[session_id], t)
         THEN [sessions |-> invalidate_session(S, session_id),
               credentials |-> NoCredentials]
         ELSE [sessions |-> S,
               credentials |-> S[session_id].credentials]

\* SecureSession.get_credentials
get_credentials(S, session_id, t) ==
    IF Falsy(session_id) \/ session_id \notin DOMAIN S
    THEN [sessions |-> S, credentials |-> NoCredentials]
    ELSE IF Expired(S[session_id], t)
         THEN [sessions |-> invalidate_session(S, session_id),
               credentials |-> NoCredentials]
         ELSE [sessions |-> [S EXCEPT ![session_id].last_accessed = t],
               credentials |-> S[session_id].credentials]

\* SecureSession.cleanup_expired_sessions: collects the session ids whose
\* expiry test succeeds at current_time, then invalidates each of them.
cleanup_expired_sessions(S, current_time) ==
    LET expired_sessions == {session_id \in DOMAIN S : Expired(S[session_id], current_time)}
    IN [h \in DOMAIN S \ expired_sessions |-> S[h]]

\* get_session_credentials(request_data)
get_session_credentials(S, request_data, t) ==
    IF Falsy(request_data.session_id)
    THEN [sessions |-> S, credentials |-> NoCredentials]
    ELSE get_credentials(S, request_data.session_id, t)

----------------------------------------------------------------------------
(* The record of a request served *)

\* op: the handler; session_id: the session id the request carried;
\* params: the shape of the request's other fields; sent: the raw
\* credentials the request carried; status, success, issued: the response
\* (issued is its session_id field); resolved: what get_credentials returned
\* to the handler; provider: the outcome of the handler's provider call
\* ("none": no call); used: the credentials of that call; invalidated: the
\* session ids the request removed from the store (each logged by
\* invalidate_session), filled in when the request is served.
Served(op, session_id, params, sent, status, success, issued, resolved, provider, used) ==
    [op |-> op, session_id |-> session_id, params |-> params, sent |-> sent,
     status |-> status, success |-> success, issued |-> issued,
     resolved |-> resolved, provider |-> provider, used |-> used,
     invalidated |-> {}]

Idle == Served("start", None, "ok", NoCredentials, 0, FALSE, None,
               NoCredentials, "none", NoCredentials)

----------------------------------------------------------------------------
(* The identity provider *)

\* sts.get_caller_identity() with the given credentials: the identity, a
\* ClientError when the provider rejects them, another exception when the
\* provider cannot be reached.
get_caller_identity(credentials, net) ==
    IF net = "down" THEN "error"
    ELSE IF credentials \in ProviderAccounts THEN "ok" ELSE "ClientError"

NetStates == {"up", "down"}

----------------------------------------------------------------------------
(* /auth/login, /auth/validate, /auth/logout *)

\* original_str = reversed_str[::-1], on the strings the bodies carry.
ReverseOf(reversed_str) ==
    CASE reversed_str = "1AIKA" -> "AKIA1"
      [] reversed_str = "1terces" -> "secret1"
      [] OTHER -> reversed_str

\* An obfuscated field of an encrypted body, by its layers: the field is
\* base64 text or not (outer_ok), the decoded text has a "<timestamp>:"
\* prefix or not (stamped), what follows is base64 text or not (inner_ok) of
\* the reversed string. An absent field is read as "", which both decoders
\* accept and which holds the empty string.
Obfuscated(outer_ok, stamped, inner_ok, reversed_str) ==
    [outer_ok |-> outer_ok, stamped |-> stamped, inner_ok |-> inner_ok,
     reversed_str |-> reversed_str]

AbsentField == Obfuscated(TRUE, FALSE, TRUE, "")

\* deobfuscate_string: layer 3 (base64, timestamp prefix), layer 2 (base64),
\* layer 1 (reversal); any failure is raised as ValueError.
deobfuscate_string(obfuscated_str) ==
    IF ~obfuscated_str.outer_ok \/ ~obfuscated_str.inner_ok
    THEN [raised |-> TRUE, value |-> None]
    ELSE [raised |-> FALSE, value |-> ReverseOf(obfuscated_str.reversed_str)]

\* JSON bodies of /auth/login: is_object is FALSE for a body that is not a
\* JSON object (request.get_json() gives no dict, data.get raises).
LoginBody(is_object, ak, sk, tok) ==
    [is_object |-> is_object, encrypted |-> FALSE, access_key |-> ak,
     secret_key |-> sk, session_token |-> tok]

\* A body with encrypted: true; has_token is the truth of its session_token.
EncryptedLoginBody(ak, sk, has_token, tok) ==
    [is_object |-> TRUE, encrypted |-> TRUE, access_key |-> ak,
     secret_key |-> sk, has_token |-> has_token, session_token |-> tok]

LoginBodies ==
    { LoginBody(TRUE, "AKIA1", "secret1", None),
      LoginBody(TRUE, "AKIA2", "secret2", "sts-token"),
      LoginBody(TRUE, "AKIA1", "secret2", None),
      LoginBody(TRUE, "AKIA2", None, None),
      LoginBody(FALSE, None, None, None),
      EncryptedLoginBody(Obfuscated(TRUE, TRUE, TRUE, "1AIKA"),
                         Obfuscated(TRUE, TRUE, TRUE, "1terces"),
                         FALSE, AbsentField),
      EncryptedLoginBody(AbsentField,
                         Obfuscated(TRUE, FALSE, TRUE, "1terces"),
                         FALSE, AbsentField),
      EncryptedLoginBody(Obfuscated(TRUE, TRUE, TRUE, "1AIKA"),
                         Obfuscated(TRUE, TRUE, FALSE, ""),
                         FALSE, AbsentField) }

\* The fields auth_login reads from an object body, on either branch:
\* raised when a field of an encrypted body does not decode.
login_fields(data) ==
    IF data.encrypted
    THEN LET ak == deobfuscate_string(data.access_key)
             sk == deobfuscate_string(data.secret_key)
             tok == IF data.has_token
                    THEN deobfuscate_string(data.session_token)
                    ELSE [raised |-> FALSE, value |-> None]
         IN [raised |-> ak.raised \/ sk.raised \/ tok.raised,
             access_key |-> ak.value, secret_key |-> sk.value,
             session_token |-> tok.value]
    ELSE [raised |-> FALSE, access_key |-> data.access_key,
          secret_key |-> data.secret_key,
          session_token |-> data.session_token]

\* What auth_login answers ahead of the identity check: 500 for a body that
\* is not an object, 400 for fields that do not decode or are missing.
login_rejection(S, data) ==
    LET reply(params, status) ==
            [sessions |-> S,
             last |-> Served("auth_login", None, params, NoCredentials,
                             status, FALSE, None, NoCredentials, "none",
                             NoCredentials)]
    IN IF ~data.is_object THEN reply("not_json", 500)
       ELSE IF login_fields(data).raised THEN reply("undecodable", 400)
       ELSE reply("missing", 400)

\* Whether auth_login answers ahead of the identity check.
login_rejected(data) ==
    \/ ~data.is_object
    \/ login_fields(data).raised
    \/ Falsy(login_fields(data).access_key)
    \/ Falsy(login_fields(data).secret_key)

\* A faulty auth_login that creates the session ahead of the identity
\* check; C9 must tell it from the real one.
auth_login_creating_first(S, t, data, net, token) ==
    LET fields == login_fields(data)
        credentials == Bundle(fields.access_key, fields.secret_key,
                              fields.session_token, DefaultRegion)
        identity == get_caller_identity(credentials, net)
        created == create_session(S, credentials, t, token)
        reply(status, success, issued, provider, used) ==
            Served("auth_login", None, "ok", credentials, status, success,
                   issued, NoCredentials, provider, used)
    IN IF login_rejected(data)
       THEN login_rejection(S, data)
       ELSE IF identity = "ok"
       THEN [sessions |-> created.sessions,
             last |-> reply(200, TRUE, created.session_id, "ok", credentials)]
       ELSE IF identity = "ClientError"
       THEN [sessions |-> created.sessions,
             last |-> reply(401, FALSE, None, "ClientError", credentials)]
       ELSE [sessions |-> created.sessions,
             last |-> reply(500, FALSE, None, "error", credentials)]

\* A faulty auth_login without the inner except clause: a ClientError of the
\* identity check reaches the outer handler; C10 must tell it from the real
\* one.
auth_login_outer_except(S, t, data, net, token) ==
    LET fields == login_fields(data)
        credentials == Bundle(fields.access_key, fields.secret_key,
                              fields.session_token, DefaultRegion)
        identity == get_caller_identity(credentials, net)
        created == create_session(S, credentials, t, token)
        reply(status, success, issued, provider, used) ==
            Served("auth_login", None, "ok", credentials, status, success,
                   issued, NoCredentials, provider, used)
    IN IF login_rejected(data)
       THEN login_rejection(S, data)
       ELSE IF identity = "ok"
       THEN [sessions |-> created.sessions,
             last |-> reply(200, TRUE, created.session_id, "ok", credentials)]
       ELSE [sessions |-> S,
             last |-> reply(500, FALSE, None, identity, credentials)]

\* A faulty auth_login that answers a failure to reach the provider like a
\* rejection of the credentials; C26 must tell it from the real one.
auth_login_network_as_rejection(S, t, data, net, token) ==
    LET fields == login_fields(data)
        access_key == fields.access_key
        secret_key == fields.secret_key
        session_token == fields.session_token
        region == DefaultRegion
        credentials == Bundle(access_key, secret_key, session_token, region)
        identity == get_caller_identity(credentials, net)
        created == create_session(S, credentials, t, token)
        reply(status, success, issued, provider, used) ==
            Served("auth_login", None, "ok", credentials, status, success,
                   issued, NoCredentials, provider, used)
    IN IF login_rejected(data)
       THEN login_rejection(S, data)
       ELSE IF identity = "ok"
       THEN [sessions |-> created.sessions,
             last |-> reply(200, TRUE, created.session_id, "ok", credentials)]
       ELSE IF identity = "ClientError"
       THEN [sessions |-> S,
             last |-> reply(401, FALSE, None, "ClientError", credentials)]
       ELSE [sessions |-> S,
             last |-> reply(401, FALSE, None, "error", credentials)]

\* auth_login
auth_login(S, t, data, net, token) ==
    LET fields == login_fields(data)
        access_key == fields.access_key
        secret_key == fields.secret_key
        session_token == fields.session_token
        region == DefaultRegion
        credentials == Bundle(access_key, secret_key, session_token, region)
        identity == get_caller_identity(credentials, net)
        created == create_session(S, credentials, t, token)
        reply(status, success, issued, provider, used) ==
            Served("auth_login", None, "ok", credentials, status, success,
                   issued, NoCredentials, provider, used)
    IN IF login_rejected(data)
       THEN login_rejection(S, data)
       ELSE IF identity = "ok"
       THEN [sessions |-> created.sessions,
             last |-> reply(200, TRUE, created.session_id, "ok", credentials)]
       ELSE IF identity = "ClientError"
       THEN [sessions |-> S,
             last |-> reply(401, FALSE, None, "ClientError", credentials)]
       ELSE [sessions |-> S,
             last |-> reply(500, FALSE, None, "error", credentials)]

\* Session ids a request may carry: absent, or any value of the token space,
\* issued or not (an empty string is read like an absent one).
SessionIds == Handles \cup {None}

\* A body of /auth/validate or /auth/logout: is_object is FALSE for a JSON
\* value that is neither an object nor falsy (a non-empty array, a string, a
\* number), on which data.get raises; an absent or empty body is read as {}.
AuthBody(is_object, session_id) ==
    [is_object |-> is_object, session_id |-> session_id]

AuthBodies ==
    {AuthBody(TRUE, sid) : sid \in SessionIds} \cup {AuthBody(FALSE, None)}

\* auth_validate
auth_validate(S, t, data) ==
    LET session_id == data.session_id
        got == get_credentials(S, session_id, t)
        reply(params, status, success, resolved) ==
            Served("auth_validate", session_id, params, NoCredentials, status,
                   success, None, resolved, "none", NoCredentials)
    IN IF ~data.is_object
       THEN [sessions |-> S, last |-> reply("not_json", 500, FALSE, NoCredentials)]
       ELSE IF Falsy(session_id)
       THEN [sessions |-> S, last |-> reply("ok", 401, FALSE, NoCredentials)]
       ELSE IF got.credentials = NoCredentials
       THEN [sessions |-> got.sessions,
             last |-> reply("ok", 401, FALSE, NoCredentials)]
       ELSE [sessions |-> got.sessions,
             last |-> reply("ok", 200, TRUE, got.credentials)]

\* auth_logout
auth_logout(S, data) ==
    LET session_id == data.session_id
        reply(params, status, success) ==
            Served("auth_logout", session_id, params, NoCredentials, status,
                   success, None, NoCredentials, "none", NoCredentials)
    IN IF ~data.is_object
       THEN [sessions |-> S, last |-> reply("not_json", 500, FALSE)]
       ELSE IF ~Falsy(session_id)
       THEN [sessions |-> invalidate_session(S, session_id),
             last |-> reply("ok", 200, TRUE)]
       ELSE [sessions |-> S, last |-> reply("ok", 200, TRUE)]

----------------------------------------------------------------------------
(* Storage endpoints that resolve the session from the request body *)

\* Outcome of a call to the storage provider: a result, a ClientError, or
\* another exception (connection failure, timeout, parameter validation).
ProviderOutcomes == {"ok", "ClientError", "error"}

\* A JSON request body: is_object is FALSE for a body that is not a JSON
\* object (data.get raises); session_id is its session_id field (None when
\* absent); params is the shape of its other fields: "ok" (the required
\* fields are present and well-typed), "missing" (a required field is
\* absent or empty), "malformed" (a field the handler converts has a value
\* of the wrong type), "no_files" (an empty selected_files list).
Request(is_object, session_id, params) ==
    [is_object |-> is_object, session_id |-> session_id, params |-> params]

NotJson == Request(FALSE, None, "not_json")

Requests(shapes) ==
    {Request(TRUE, sid, p) : sid \in SessionIds, p \in shapes} \cup {NotJson}

\* A faulty handler body that drops the session when the provider call
\* fails; C30 must tell it from the real one.
gated_handler_dropping_session(op, S, t, data, outcome, raises_before_gate, reject_status, except_status, absorbs_failure) ==
    LET got == get_session_credentials(S, data, t)
        credentials == got.credentials
        reply(status, success, resolved, provider, used) ==
            Served(op, data.session_id, data.params, NoCredentials, status,
                   success, None, resolved, provider, used)
    IN IF ~data.is_object \/ raises_before_gate
       THEN [sessions |-> S,
             last |-> reply(except_status, FALSE, NoCredentials, "none",
                            NoCredentials)]
       ELSE IF credentials = NoCredentials
       THEN [sessions |-> got.sessions,
             last |-> reply(401, FALSE, NoCredentials, "none", NoCredentials)]
       ELSE IF data.params = "missing"
       THEN [sessions |-> got.sessions,
             last |-> reply(reject_status, FALSE, credentials, "none",
                            NoCredentials)]
       ELSE LET success == outcome = "ok" \/ absorbs_failure
            IN [sessions |-> IF success THEN got.sessions
                             ELSE invalidate_session(got.sessions, data.session_id),
                last |-> reply(IF success THEN 200 ELSE except_status,
                               success, credentials, outcome, credentials)]

\* The common body of the session-gated handlers: the handler's statements
\* ahead of the gate (which may raise), the gate, the check of the required
\* parameters, the provider call. absorbs_failure: the handler catches a
\* failed provider call per key and still answers 200.
gated_handler(op, S, t, data, outcome, raises_before_gate, reject_status, except_status, absorbs_failure) ==
    LET got == get_session_credentials(S, data, t)
        credentials == got.credentials
        reply(status, success, resolved, provider, used) ==
            Served(op, data.session_id, data.params, NoCredentials, status,
                   success, None, resolved, provider, used)
    IN IF ~data.is_object \/ raises_before_gate
       THEN [sessions |-> S,
             last |-> reply(except_status, FALSE, NoCredentials, "none",
                            NoCredentials)]
       ELSE IF credentials = NoCredentials
       THEN [sessions |-> got.sessions,
             last |-> reply(401, FALSE, NoCredentials, "none", NoCredentials)]
       ELSE IF data.params = "missing"
       THEN [sessions |-> got.sessions,
             last |-> reply(reject_status, FALSE, credentials, "none",
                            NoCredentials)]
       ELSE LET success == outcome = "ok" \/ absorbs_failure
            IN [sessions |-> got.sessions,
                last |-> reply(IF success THEN 200 ELSE except_status,
                               success, credentials, outcome, credentials)]

\* browse_folders: bucket is required.
browse_folders(S, t, data, outcome) ==
    gated_handler("browse_folders", S, t, data, outcome, FALSE, 200, 200,
                  FALSE)

\* generate_presigned_url: int(data.get("expiration", 3600)) runs ahead of
\* the gate and raises on a value that is not a number.
generate_presigned_url(S, t, data, outcome) ==
    gated_handler("generate_presigned_url", S, t, data, outcome,
                  data.params = "malformed", 200, 200, FALSE)

\* s3.generate_presigned_url and s3.generate_presigned_post of a client
\* configured with signature_version='s3v4': the credential strings that
\* appear in what they return. The query string (the form fields) carries
\* X-Amz-Credential, which starts with the access key id, and
\* X-Amz-Security-Token when the credentials have a session token; the
\* secret key only enters the signature.
presigned(credentials) ==
    {credentials.access_key} \cup
    (IF Falsy(credentials.session_token) THEN {}
     ELSE {credentials.session_token})

\* The credential strings in the JSON body of a response. generate_presigned_url
\* answers with download_url and curl_download, or with post_url, post_fields,
\* put_url, curl_post and curl_put, all built from what the client signed; the
\* other handlers answer with messages, listings and, for a login, the
\* session id and the provider's identity fields.
response_credentials(reply) ==
    IF reply.op = "generate_presigned_url" /\ reply.provider = "ok" /\ reply.success
    THEN presigned(reply.used)
    ELSE {}

\* The message field of a 401 response: auth_login answers a ClientError of
\* the identity check with "Invalid AWS credentials"; auth_validate answers
\* a request without session id with "No session provided" and a session id
\* that resolves no credentials with "Invalid or expired session"; the
\* storage and wizard endpoints answer both with the latter.
response_message(reply) ==
    IF reply.status # 401 THEN "other"
    ELSE IF reply.op = "auth_login" THEN "Invalid AWS credentials"
    ELSE IF reply.op = "auth_validate" /\ Falsy(reply.session_id)
    THEN "No session provided"
    ELSE "Invalid or expired session"

\* list_buckets: no parameter besides the session id.
list_buckets(S, t, data, outcome) ==
    gated_handler("list_buckets", S, t, [data EXCEPT !.params = "ok"],
                  outcome, FALSE, 200, 200,
                  FALSE)

\* s3_delete_object: bucket and key are required.
s3_delete_object(S, t, data, outcome) ==
    gated_handler("s3_delete_object", S, t, data, outcome, FALSE, 200, 200,
                  FALSE)

\* s3_delete_folder: bucket and prefix are required.
s3_delete_folder(S, t, data, outcome) ==
    gated_handler("s3_delete_folder", S, t, data, outcome, FALSE, 200, 200,
                  FALSE)

\* s3_create_folder: bucket and folder_key are required.
s3_create_folder(S, t, data, outcome) ==
    gated_handler("s3_create_folder", S, t, data, outcome, FALSE, 200, 200,
                  FALSE)

\* s3_download_zip: len(keys) in the log line ahead of the gate raises when
\* keys is null or a number; the handler answers 400 for missing parameters
\* and 500 for an exception; a key that fails to download becomes an ERROR
\* entry of the archive.
s3_download_zip(S, t, data, outcome) ==
    gated_handler("s3_download_zip", S, t, data, outcome,
                  data.params = "malformed", 400, 500, TRUE)

\* s3_check_file: bucket and key are required.
s3_check_file(S, t, data, outcome) ==
    gated_handler("s3_check_file", S, t, data, outcome, FALSE, 200, 200,
                  FALSE)

\* s3_search_file: bucket and filename are required.
s3_search_file(S, t, data, outcome) ==
    gated_handler("s3_search_file", S, t, data, outcome, FALSE, 200, 200,
                  FALSE)

----------------------------------------------------------------------------
(* Extension rename: the wizard endpoints and the legacy form flow *)

\* Raw credentials a form or JSON body may carry.
RawCredentials == {Bundle("AKIA1", "secret1", None, DefaultRegion)}

\* wizard_extension_renamer: a JSON request goes through the gate; any other
\* content type is read as a form that carries the credentials themselves
\* (a missing form field raises).
wizard_extension_renamer(S, t, is_json, data, form, outcome) ==
    LET reply(status, success, provider, used) ==
            Served("wizard_extension_renamer", None, form.params, form.sent,
                   status, success, None, NoCredentials, provider, used)
    IN IF is_json
       THEN gated_handler("wizard_extension_renamer", S, t, data, outcome,
                          FALSE, 200, 200, FALSE)
       ELSE IF form.params = "missing"
       THEN [sessions |-> S,
             last |-> reply(200, FALSE, "none", NoCredentials)]
       ELSE [sessions |-> S,
             last |-> reply(200, outcome = "ok", outcome, form.sent)]

\* A form: the credentials it carries and the shape of its fields.
Form(sent, params) == [sent |-> sent, params |-> params]

Forms ==
    {Form(c, "ok") : c \in RawCredentials} \cup {Form(NoCredentials, "missing")}

\* wizard_extension_renamer_execute: the session id is read from the config
\* object of the body, after the check of selected_files; a key that fails
\* is counted in error_count.
wizard_extension_renamer_execute(S, t, data, outcome) ==
    IF data.is_object /\ data.params = "no_files"
    THEN [sessions |-> S,
          last |-> Served("wizard_extension_renamer_execute", data.session_id,
                          data.params, NoCredentials, 200, FALSE, None,
                          NoCredentials, "none", NoCredentials)]
    ELSE gated_handler("wizard_extension_renamer_execute", S, t, data,
                       outcome, FALSE, 200, 200, TRUE)

\* extension_renamer (POST): the form carries the credentials; the client
\* built from them is kept in app.config for /confirm once the listing
\* succeeded.
extension_renamer(cfg, form, outcome) ==
    LET client == Bundle(form.sent.access_key, form.sent.secret_key, None, None)
        reply(provider, used) ==
            Served("extension_renamer", None, form.params, form.sent, 200,
                   outcome = "ok" /\ form.params = "ok", None, NoCredentials,
                   provider, used)
    IN IF form.params = "missing"
       THEN [app_config |-> cfg, last |-> reply("none", NoCredentials)]
       ELSE [app_config |-> IF outcome = "ok" THEN client ELSE cfg,
             last |-> reply(outcome, client)]

\* confirm: renames the selected files with the client kept in app.config;
\* no session id is read. Without a stored client the lookup raises, and
\* so does the except clause (recursive is unbound).
confirm(cfg, selected, outcome) ==
    LET reply(status, success, provider, used) ==
            Served("confirm", None, selected, NoCredentials, status, success,
                   None, NoCredentials, provider, used)
    IN IF cfg = NoCredentials
       THEN reply(500, FALSE, "none", NoCredentials)
       ELSE IF selected = "no_files"
       THEN reply(200, FALSE, "none", NoCredentials)
       ELSE reply(200, TRUE, outcome, cfg)

\* generate_multi_presigned_posts: the JSON body carries the credentials;
\* int(expiration) may raise first.
generate_multi_presigned_posts(form, outcome) ==
    LET reply(success, provider, used) ==
            Served("generate_multi_presigned_posts", None, form.params,
                   form.sent, 200, success, None, NoCredentials, provider,
                   used)
    IN IF form.params # "ok"
       THEN reply(FALSE, "none", NoCredentials)
       ELSE reply(outcome = "ok", outcome, form.sent)

\* test_connection: the JSON body carries the credentials.
test_connection(form, outcome) ==
    LET reply(success, provider, used) ==
            Served("test_connection", None, form.params, form.sent, 200,
                   success, None, NoCredentials, provider, used)
    IN IF form.params # "ok"
       THEN reply(FALSE, "none", NoCredentials)
       ELSE reply(outcome = "ok", outcome, form.sent)

----------------------------------------------------------------------------
(* Threads inside SecureSession *)

\* A thread's reference to a session dict (the local session_data): none,
\* the dict stored under a session id, or a dict that left the store.
NoRef == [where |-> "none", handle |-> None, orphan |-> 0]

StoreRef(session_id) == [where |-> "store", handle |-> session_id, orphan |-> 0]

OrphanRef(k) == [where |-> "orphan", handle |-> None, orphan |-> k]

\* A thread: the method it is in (fn), the statement it is about to run
\* (pc, "done" outside any method), the session_id argument, session_data,
\* how the method ended (outcome: "returned" or the exception raised),
\* the method whose statement raised, and the value returned.
Thread(fn, pc, session_id, ref, outcome, raised_in, value) ==
    [fn |-> fn, pc |-> pc, session_id |-> session_id, ref |-> ref,
     outcome |-> outcome, raised_in |-> raised_in, value |-> value]

Resting == Thread("none", "done", None, NoRef, "none", "none", NoCredentials)

Returned(fn, session_id, value) ==
    Thread(fn, "done", session_id, NoRef, "returned", "none", value)

Raised(fn, session_id, raised_in) ==
    Thread(fn, "done", session_id, NoRef, "KeyError", raised_in, NoCredentials)

\* The threads whose session_data is the dict stored under session_id.
Holders(T, session_id) ==
    {j \in Threads : T[j].ref.where = "store" /\ T[j].ref.handle = session_id}

FreeOrphan(O) ==
    CHOOSE k \in Threads :
        k \notin DOMAIN O /\ \A j \in Threads : j < k => j \in DOMAIN O

\* Threads and orphans once the dict S[session_id] has left the store
\* (deleted, or replaced by a new dict under the same key): the threads
\* that hold it keep it; removed_by is the method that removed it.
Detached(T, O, S, session_id, removed_by) ==
    IF session_id \notin DOMAIN S \/ Holders(T, session_id) = {}
    THEN [threads |-> T, orphans |-> O]
    ELSE LET k == FreeOrphan(O)
         IN [threads |-> [j \in Threads |->
                            IF j \in Holders(T, session_id)
                            THEN [T[j] EXCEPT !.ref = OrphanRef(k)]
                            ELSE T[j]],
             orphans |-> [x \in DOMAIN O \cup {k} |->
                            IF x = k
                            THEN [session_data |-> S[session_id],
                                  removed_by |-> removed_by]
                            ELSE O[x]]]

\* A dict no thread refers to is garbage.
Collected(T, O) ==
    [k \in {x \in DOMAIN O :
               \E j \in Threads :
                   T[j].ref.where = "orphan" /\ T[j].ref.orphan = x} |-> O[k]]

\* The dict a reference points to.
Deref(S, O, ref) ==
    IF ref.where = "store" THEN S[ref.handle] ELSE O[ref.orphan].session_data

----------------------------------------------------------------------------
(* A thread inside cleanup_expired_sessions *)

\* The locals of the thread: the statement it is about to run (pc, "done"
\* outside the method), current_time, expired_sessions, the iterator of
\* `for ... in self.sessions.items()` (di_used: the size of the dict when the
\* iterator was made; yielded: the session ids it has produced), the session
\* id invalidate_session was called with (session_id), how the method ended
\* (outcome: "returned" or the exception raised), and began: the session ids
\* whose session was expired when the scan began.
Sweep(pc, current_time, expired_sessions, di_used, yielded, session_id, outcome, began) ==
    [pc |-> pc, current_time |-> current_time,
     expired_sessions |-> expired_sessions, di_used |-> di_used,
     yielded |-> yielded, session_id |-> session_id, outcome |-> outcome,
     began |-> began]

NoSweep == Sweep("done", 0, {}, 0, {}, None, "none", {})

\* A handler that works through a list of keys: none is running.
NoJob == [op |-> "none", pc |-> "done"]

----------------------------------------------------------------------------
(* Actions *)

Init ==
    /\ sessions = [h \in {} |-> 0]
    /\ now = 0
    /\ app_config = NoCredentials
    /\ last = Idle
    /\ threads = [i \in Threads |-> Resting]
    /\ orphans = [k \in {} |-> 0]
    /\ shadow = [h \in {} |-> 0]
    /\ sweep = NoSweep
    /\ job = NoJob

\* The wall clock moves on between requests.
Advance ==
    /\ \E t \in Instants : t > now /\ now' = t
    /\ last' = [Idle EXCEPT !.op = "advance"]
    /\ UNCHANGED <<sessions, app_config, threads, orphans, shadow, sweep, job>>

\* A handler that reads and writes the session store.
Serve(r) ==
    /\ sessions' = r.sessions
    /\ last' = [r.last EXCEPT !.invalidated = DOMAIN sessions \ DOMAIN r.sessions]
    /\ UNCHANGED <<now, app_config, threads, orphans, shadow, sweep, job>>

\* A handler that never touches the session store.
ServeRaw(reply) ==
    /\ last' = reply
    /\ UNCHANGED <<sessions, now, app_config, threads, orphans, shadow, sweep, job>>

\* The provider outcome chosen for a request is the one its provider call
\* meets; a request answered before any provider call has none to choose.
Meets(reply, outcome) ==
    \/ reply.provider = outcome
    \/ reply.provider = "none" /\ outcome = "ok"

\* net and token are the network state and the secrets.token_urlsafe value
\* the request meets; they are chosen only when the handler reads them.
AuthLogin ==
    \E data \in LoginBodies, net \in NetStates, token \in Handles :
        LET r == auth_login(sessions, now, data, net, token)
        IN /\ r.last.provider = "none" => net = "up"
           /\ r.last.issued = None => token = HandleNames[1]
           /\ Serve(r)

AuthValidate ==
    \E data \in AuthBodies :
        Serve(auth_validate(sessions, now, data))

AuthLogout ==
    \E data \in AuthBodies :
        Serve(auth_logout(sessions, data))

BrowseFolders ==
    \E data \in Requests({"ok", "missing"}), outcome \in ProviderOutcomes :
        LET r == browse_folders(sessions, now, data, outcome)
        IN Meets(r.last, outcome) /\ Serve(r)

GeneratePresignedUrl ==
    \E data \in Requests({"ok", "missing", "malformed"}), outcome \in ProviderOutcomes :
        LET r == generate_presigned_url(sessions, now, data, outcome)
        IN Meets(r.last, outcome) /\ Serve(r)

ListBuckets ==
    \E data \in Requests({"ok"}), outcome \in ProviderOutcomes :
        LET r == list_buckets(sessions, now, data, outcome)
        IN Meets(r.last, outcome) /\ Serve(r)

S3DeleteObject ==
    \E data \in Requests({"ok", "missing"}), outcome \in ProviderOutcomes :
        LET r == s3_delete_object(sessions, now, data, outcome)
        IN Meets(r.last, outcome) /\ Serve(r)

S3DeleteFolder ==
    \E data \in Requests({"ok", "missing"}), outcome \in ProviderOutcomes :
        LET r == s3_delete_folder(sessions, now, data, outcome)
        IN Meets(r.last, outcome) /\ Serve(r)

S3CreateFolder ==
    \E data \in Requests({"ok", "missing"}), outcome \in ProviderOutcomes :
        LET r == s3_create_folder(sessions, now, data, outcome)
        IN Meets(r.last, outcome) /\ Serve(r)

S3DownloadZip ==
    \E data \in Requests({"ok", "missing", "malformed"}), outcome \in ProviderOutcomes :
        LET r == s3_download_zip(sessions, now, data, outcome)
        IN Meets(r.last, outcome) /\ Serve(r)

S3CheckFile ==
    \E data \in Requests({"ok", "missing"}), outcome \in ProviderOutcomes :
        LET r == s3_check_file(sessions, now, data, outcome)
        IN Meets(r.last, outcome) /\ Serve(r)

S3SearchFile ==
    \E data \in Requests({"ok", "missing"}), outcome \in ProviderOutcomes :
        LET r == s3_search_file(sessions, now, data, outcome)
        IN Meets(r.last, outcome) /\ Serve(r)

NoForm == Form(NoCredentials, "ok")

\* The request is either JSON (content type application/json) or a form.
WizardExtensionRenamer ==
    \/ \E data \in Requests({"ok", "missing"}), outcome \in ProviderOutcomes :
         LET r == wizard_extension_renamer(sessions, now, TRUE, data, NoForm,
                                           outcome)
         IN Meets(r.last, outcome) /\ Serve(r)
    \/ \E form \in Forms, outcome \in ProviderOutcomes :
         LET r == wizard_extension_renamer(sessions, now, FALSE, NotJson,
                                           form, outcome)
         IN Meets(r.last, outcome) /\ Serve(r)

WizardExtensionRenamerExecute ==
    \E data \in Requests({"ok", "missing", "no_files"}), outcome \in ProviderOutcomes :
        LET r == wizard_extension_renamer_execute(sessions, now, data, outcome)
        IN Meets(r.last, outcome) /\ Serve(r)

ExtensionRenamer ==
    \E form \in Forms, outcome \in ProviderOutcomes :
        LET r == extension_renamer(app_config, form, outcome)
        IN /\ Meets(r.last, outcome)
           /\ app_config' = r.app_config
           /\ last' = r.last
           /\ UNCHANGED <<sessions, now, threads, orphans, shadow, sweep, job>>

Confirm ==
    \E selected \in {"ok", "no_files"}, outcome \in ProviderOutcomes :
        LET r == confirm(app_config, selected, outcome)
        IN Meets(r, outcome) /\ ServeRaw(r)

GenerateMultiPresignedPosts ==
    \E form \in Forms, outcome \in ProviderOutcomes :
        LET r == generate_multi_presigned_posts(form, outcome)
        IN Meets(r, outcome) /\ ServeRaw(r)

TestConnection ==
    \E form \in Forms, outcome \in ProviderOutcomes :
        LET r == test_connection(form, outcome)
        IN Meets(r, outcome) /\ ServeRaw(r)

Next ==
    \/ Advance
    \/ AuthLogin
    \/ AuthValidate
    \/ AuthLogout
    \/ BrowseFolders
    \/ GeneratePresignedUrl
    \/ ListBuckets
    \/ S3DeleteObject
    \/ S3DeleteFolder
    \/ S3CreateFolder
    \/ S3DownloadZip
    \/ S3CheckFile
    \/ S3SearchFile
    \/ WizardExtensionRenamer
    \/ WizardExtensionRenamerExecute
    \/ ExtensionRenamer
    \/ Confirm
    \/ GenerateMultiPresignedPosts
    \/ TestConnection

Spec == Init /\ [][Next]_vars

\* The application while time passes: the clock moves on by itself, and
\* nothing else does: every other step is a request a client chose to send,
\* and no timer or background thread of the application calls
\* cleanup_expired_sessions.
FairSpec == Spec /\ WF_vars(Advance)

\* The session lifecycle alone: login, validate, logout, one gated storage
\* endpoint, and the clock.
NextSession ==
    \/ Advance
    \/ AuthLogin
    \/ AuthValidate
    \/ AuthLogout
    \/ ListBuckets

SpecSession == Init /\ [][NextSession]_vars

----------------------------------------------------------------------------
(* Concurrent calls of SecureSession: one action per statement *)

\* Thread i ends its method with record done, after the store became S and
\* the dict under session_id left it (when removed_by is not "none").
Finish(i, done, S, session_id, removed_by) ==
    LET T == [threads EXCEPT ![i] = done]
        D == IF removed_by = "none"
             THEN [threads |-> T, orphans |-> orphans]
             ELSE Detached(T, orphans, sessions, session_id, removed_by)
    IN /\ sessions' = S
       /\ threads' = D.threads
       /\ orphans' = Collected(D.threads, D.orphans)
       /\ UNCHANGED <<now, app_config, last, shadow, sweep, job>>

\* Thread i moves on to statement pc of method fn.
Goto(i, fn, pc, session_id, ref) ==
    /\ threads' = [threads EXCEPT ![i] =
                      Thread(fn, pc, session_id, ref, "running", "none",
                             NoCredentials)]
    /\ UNCHANGED <<sessions, now, app_config, last, orphans, shadow, sweep, job>>

\* create_session, lines 98-106: the store is written by one statement.
ThreadCreateSession ==
    \E i \in Threads, credentials \in ProviderAccounts, token \in Handles :
        /\ threads[i].pc = "done"
        /\ Finish(i, Returned("create_session", token, credentials),
                  create_session(sessions, credentials, now, token).sessions,
                  token, "create_session")

\* get_credentials, line 110: the membership test.
ThreadGetCheck ==
    \E i \in Threads, session_id \in SessionIds :
        /\ threads[i].pc = "done"
        /\ IF Falsy(session_id) \/ session_id \notin DOMAIN sessions
           THEN Finish(i, Returned("get_credentials", session_id, NoCredentials),
                       sessions, session_id, "none")
           ELSE Goto(i, "get_credentials", "lookup", session_id, NoRef)

\* get_credentials, line 113: session_data = self.sessions[session_id].
ThreadGetLookup ==
    \E i \in Threads :
        LET session_id == threads[i].session_id
        IN /\ threads[i].pc = "lookup"
           /\ IF session_id \notin DOMAIN sessions
              THEN Finish(i, Raised("get_credentials", session_id,
                                    "get_credentials"),
                          sessions, session_id, "none")
              ELSE Goto(i, "get_credentials", "expiry", session_id,
                        StoreRef(session_id))

\* get_credentials, line 116: the expiry test on session_data.
ThreadGetExpiry ==
    \E i \in Threads :
        /\ threads[i].pc = "expiry"
        /\ IF Expired(Deref(sessions, orphans, threads[i].ref), now)
           THEN Goto(i, "get_credentials", "invalidate", threads[i].session_id,
                     threads[i].ref)
           ELSE Goto(i, "get_credentials", "touch", threads[i].session_id,
                     threads[i].ref)

\* get_credentials, lines 121-122: last_accessed of session_data is set and
\* its credentials are returned.
ThreadGetTouch ==
    \E i \in Threads :
        LET ref == threads[i].ref
            session_data == Deref(sessions, orphans, ref)
            T == [threads EXCEPT ![i] =
                     Returned("get_credentials", threads[i].session_id,
                              session_data.credentials)]
        IN /\ threads[i].pc = "touch"
           /\ threads' = T
           /\ IF ref.where = "store"
              THEN /\ sessions' = [sessions EXCEPT
                                      ![ref.handle].last_accessed = now]
                   /\ orphans' = orphans
              ELSE /\ sessions' = sessions
                   /\ orphans' = Collected(T,
                          [orphans EXCEPT
                              ![ref.orphan].session_data.last_accessed = now])
           /\ UNCHANGED <<now, app_config, last, shadow, sweep, job>>

\* invalidate_session, line 126, called by a request (auth_logout).
ThreadInvalidateCall ==
    \E i \in Threads, session_id \in Handles :
        /\ threads[i].pc = "done"
        /\ IF session_id \in DOMAIN sessions
           THEN Goto(i, "invalidate_session", "delete", session_id, NoRef)
           ELSE Finish(i, Returned("invalidate_session", session_id,
                                   NoCredentials),
                       sessions, session_id, "none")

\* invalidate_session, line 126, called by get_credentials (line 117).
ThreadInvalidateCheck ==
    \E i \in Threads :
        LET session_id == threads[i].session_id
        IN /\ threads[i].pc = "invalidate"
           /\ IF session_id \in DOMAIN sessions
              THEN Goto(i, "get_credentials", "delete", session_id,
                        threads[i].ref)
              ELSE Finish(i, Returned("get_credentials", session_id,
                                      NoCredentials),
                          sessions, session_id, "none")

\* invalidate_session, line 127: del self.sessions[session_id]; a KeyError
\* passes through get_credentials to the request handler.
ThreadInvalidateDelete ==
    \E i \in Threads :
        LET session_id == threads[i].session_id
            fn == threads[i].fn
        IN /\ threads[i].pc = "delete"
           /\ IF session_id \notin DOMAIN sessions
              THEN Finish(i, Raised(fn, session_id, "invalidate_session"),
                          sessions, session_id, "none")
              ELSE Finish(i, Returned(fn, session_id, NoCredentials),
                          invalidate_session(sessions, session_id),
                          session_id, fn)

NextThreads ==
    \/ Advance
    \/ ThreadCreateSession
    \/ ThreadGetCheck
    \/ ThreadGetLookup
    \/ ThreadGetExpiry
    \/ ThreadGetTouch
    \/ ThreadInvalidateCall
    \/ ThreadInvalidateCheck
    \/ ThreadInvalidateDelete

SpecThreads == Init /\ [][NextThreads]_vars

----------------------------------------------------------------------------
(* The session lifecycle with accesses just inside the timeout *)

\* The session lifecycle on a clock whose instants are one second less than
\* the timeout apart.
SlidingInstants == {k * (session_timeout - 1) : k \in 0..MaxTouches}

SlidingAdvance ==
    /\ \E t \in SlidingInstants : t > now /\ now' = t
    /\ last' = [Idle EXCEPT !.op = "advance"]
    /\ UNCHANGED <<sessions, app_config, threads, orphans, shadow, sweep, job>>

NextSliding ==
    \/ SlidingAdvance
    \/ AuthLogin
    \/ AuthValidate
    \/ AuthLogout
    \/ ListBuckets

SpecSliding == Init /\ [][NextSliding]_vars

----------------------------------------------------------------------------
(* Sequential calls of SecureSession, with and without the sweep *)

\* The instants of the clock for the calls below: those of the requests, and
\* one two whole days after the first.
SweepInstants == Instants \cup {2 * SecondsPerDay}

\* A call of a method of session_manager. sessions is the store of the run
\* that includes the calls of cleanup_expired_sessions, shadow the store of
\* the same run with those calls left out.
ManagerServe(S, SH, reply) ==
    /\ sessions' = S
    /\ shadow' = SH
    /\ last' = [reply EXCEPT !.invalidated = DOMAIN sessions \ DOMAIN S]
    /\ UNCHANGED <<now, app_config, threads, orphans, sweep, job>>

ManagerAdvance ==
    /\ \E t \in SweepInstants : t > now /\ now' = t
    /\ last' = [Idle EXCEPT !.op = "advance"]
    /\ UNCHANGED <<sessions, shadow, app_config, threads, orphans, sweep, job>>

ManagerCreate ==
    \E credentials \in ProviderAccounts, token \in Handles :
        ManagerServe(create_session(sessions, credentials, now, token).sessions,
                     create_session(shadow, credentials, now, token).sessions,
                     Served("create_session", None, "ok", credentials, 0, TRUE,
                            token, NoCredentials, "none", NoCredentials))

ManagerGet ==
    \E session_id \in SessionIds :
        LET got == get_credentials(sessions, session_id, now)
        IN ManagerServe(got.sessions,
                        get_credentials(shadow, session_id, now).sessions,
                        Served("get_credentials", session_id, "ok", NoCredentials,
                               0, got.credentials # NoCredentials, None,
                               got.credentials, "none", NoCredentials))

ManagerInvalidate ==
    \E session_id \in SessionIds :
        ManagerServe(invalidate_session(sessions, session_id),
                     invalidate_session(shadow, session_id),
                     Served("invalidate_session", session_id, "ok", NoCredentials,
                            0, TRUE, None, NoCredentials, "none", NoCredentials))

ManagerCleanup ==
    ManagerServe(cleanup_expired_sessions(sessions, now), shadow,
                 Served("cleanup_expired_sessions", None, "ok", NoCredentials,
                        0, TRUE, None, NoCredentials, "none", NoCredentials))

NextManager ==
    \/ ManagerAdvance
    \/ ManagerCreate
    \/ ManagerGet
    \/ ManagerInvalidate
    \/ ManagerCleanup

SpecManager == Init /\ [][NextManager]_vars

----------------------------------------------------------------------------
(* cleanup_expired_sessions, one action per statement, among other calls *)

\* The sweeping thread moves on; the store is unchanged.
SweepGoto(next) ==
    /\ sweep' = next
    /\ UNCHANGED <<sessions, now, app_config, last, threads, orphans, shadow, job>>

\* Lines 132-135: current_time is read, expired_sessions is empty, and the
\* iterator over self.sessions.items() is made.
SweepStart ==
    /\ sweep.pc = "done"
    /\ SweepGoto(Sweep("scan", now, {}, Cardinality(DOMAIN sessions), {}, None,
                       "running",
                       {h \in DOMAIN sessions : Expired(sessions[h], now)}))

\* Lines 135-137: the iterator produces the next item, or raises
\* RuntimeError (dictionary changed size during iteration) when the dict no
\* longer has the size it had when the iterator was made; the item's expiry
\* test follows. An item put back under a session id the iterator has
\* already produced is not looked at again.
SweepNext ==
    /\ sweep.pc = "scan"
    /\ IF Cardinality(DOMAIN sessions) # sweep.di_used
       THEN SweepGoto([sweep EXCEPT !.pc = "done", !.outcome = "RuntimeError"])
       ELSE IF DOMAIN sessions \ sweep.yielded = {}
       THEN SweepGoto([sweep EXCEPT !.pc = "purge"])
       ELSE \E session_id \in DOMAIN sessions \ sweep.yielded :
               SweepGoto([sweep EXCEPT
                   !.yielded = @ \cup {session_id},
                   !.expired_sessions =
                       IF Expired(sessions[session_id], sweep.current_time)
                       THEN @ \cup {session_id} ELSE @])

\* Lines 139-140 and 126: the next session id of expired_sessions is handed
\* to invalidate_session, which tests its membership.
SweepInvalidateCheck ==
    /\ sweep.pc = "purge"
    /\ IF sweep.expired_sessions = {}
       THEN SweepGoto([sweep EXCEPT !.pc = "done", !.outcome = "returned"])
       ELSE \E session_id \in sweep.expired_sessions :
               IF session_id \in DOMAIN sessions
               THEN SweepGoto([sweep EXCEPT !.pc = "delete",
                                            !.session_id = session_id])
               ELSE SweepGoto([sweep EXCEPT
                                  !.expired_sessions = @ \ {session_id}])

\* Line 127: del self.sessions[session_id]; a KeyError ends the sweep.
SweepInvalidateDelete ==
    /\ sweep.pc = "delete"
    /\ IF sweep.session_id \notin DOMAIN sessions
       THEN SweepGoto([sweep EXCEPT !.pc = "done", !.outcome = "KeyError"])
       ELSE /\ sessions' = invalidate_session(sessions, sweep.session_id)
            /\ sweep' = [sweep EXCEPT !.pc = "purge",
                                      !.expired_sessions = @ \ {sweep.session_id}]
            /\ UNCHANGED <<now, app_config, last, threads, orphans, shadow, job>>

\* The sweep runs on one thread while other threads call create_session,
\* get_credentials and invalidate_session, each call taken whole.
NextSweep ==
    \/ ManagerAdvance
    \/ ManagerCreate
    \/ ManagerGet
    \/ ManagerInvalidate
    \/ SweepStart
    \/ SweepNext
    \/ SweepInvalidateCheck
    \/ SweepInvalidateDelete

SpecSweep == Init /\ [][NextSweep]_vars

----------------------------------------------------------------------------
(* s3_delete_folder past the session gate: listing, blocks, response *)

\* The size of a batch handed to s3.delete_objects.
BlockSize == 1000

\* The numbers of keys the listing may find under the prefix; the keys are
\* numbered 1..n in the order of objects_to_delete.
ListedCounts == {k * BlockSize + r : k \in 0..MaxBlocks, r \in {0, 1}}

\* The answers of s3.delete_objects to a batch of len keys: the number of
\* keys of the batch in response['Deleted'] (the first ones; the others are
\* in response['Errors']).
BatchAnswers(len) == {0, 1, len - 1, len} \cap 0..len

Min(a, b) == IF a <= b THEN a ELSE b

\* The JSON response: success, deleted_count where the response has one,
\* and the keys the response names as not deleted.
FolderResponse(success, has_deleted_count, deleted_count, errors) ==
    [success |-> success, has_deleted_count |-> has_deleted_count,
     deleted_count |-> deleted_count, errors |-> errors]

NoResponse == FolderResponse(FALSE, FALSE, 0, {})

\* The locals of s3_delete_folder: n is len(objects_to_delete), i the loop
\* variable, deleted_count the counter; blocks records each batch submitted
\* (its first key lo, its last key hi, and the number of its keys the
\* provider confirmed deleted).
DeleteFolderJob(pc, n, i, deleted_count, blocks, response) ==
    [op |-> "s3_delete_folder", pc |-> pc, n |-> n, i |-> i,
     deleted_count |-> deleted_count, blocks |-> blocks, response |-> response]

JobStep(next) ==
    /\ job' = next
    /\ UNCHANGED <<sessions, now, app_config, last, threads, orphans, shadow, sweep>>

\* Lines 1054-1069: the keys under the prefix are listed; without any, the
\* response is success with deleted_count 0. A listing that raises ends the
\* handler in its except clause.
DeleteFolderList ==
    /\ job.pc = "done"
    /\ \/ JobStep(DeleteFolderJob("done", 0, 0, 0, <<>>, NoResponse))
       \/ \E n \in ListedCounts :
             IF n = 0
             THEN JobStep(DeleteFolderJob("done", 0, 0, 0, <<>>,
                                          FolderResponse(TRUE, TRUE, 0, {})))
             ELSE JobStep(DeleteFolderJob("batch", n, 0, 0, <<>>, NoResponse))

\* Lines 1073-1091: one turn of `for i in range(0, len(objects_to_delete),
\* 1000)`: the batch objects_to_delete[i:i+1000] is submitted; the keys of
\* response['Deleted'] are counted, those of response['Errors'] are logged.
\* A call that raises ends the handler in its except clause (lines
\* 1100-1105): success false, no deleted_count.
DeleteFolderBatch ==
    /\ job.op = "s3_delete_folder"
    /\ job.pc = "batch"
    /\ job.i < job.n
    /\ LET lo == job.i + 1
           hi == Min(job.i + BlockSize, job.n)
       IN \/ JobStep([job EXCEPT !.pc = "done", !.response = NoResponse])
          \/ \E d \in BatchAnswers(hi - lo + 1) :
                JobStep([job EXCEPT
                    !.i = @ + BlockSize,
                    !.deleted_count = @ + d,
                    !.blocks = Append(@, [lo |-> lo, hi |-> hi, deleted |-> d])])

\* Lines 1093-1098: the response after the last batch.
DeleteFolderRespond ==
    /\ job.op = "s3_delete_folder"
    /\ job.pc = "batch"
    /\ job.i >= job.n
    /\ JobStep([job EXCEPT
           !.pc = "done",
           !.response = FolderResponse(TRUE, TRUE, job.deleted_count, {})])

NextDeleteFolder ==
    \/ DeleteFolderList
    \/ DeleteFolderBatch
    \/ DeleteFolderRespond

SpecDeleteFolder == Init /\ [][NextDeleteFolder]_vars

----------------------------------------------------------------------------
(* The rename loop of wizard_extension_renamer_execute and confirm *)

RenameOps == {"wizard_extension_renamer_execute", "confirm"}

\* Keys are sequences of characters. The extensions of the configuration,
\* the keys the bucket holds at first, and the keys a request may select
\* (one of them is not in the bucket).
old_ext == <<".", "o">>

new_ext == <<".", "n">>

BucketKeys == {<<"a", ".", "o">>, <<"b", ".", "o">>}

SelectableKeys == BucketKeys \cup {<<"c", ".", "o">>}

SelectedFiles ==
    UNION {[1..n -> SelectableKeys] : n \in 0..MaxKeys}

\* new_key = key[:-len(old_ext)] + new_ext
new_key(key) == SubSeq(key, 1, Len(key) - Len(old_ext)) \o new_ext

\* The locals of the loop: selected_files, the index k of the key in hand,
\* keep_original, success_count, error_count; objects are the keys in the
\* bucket; copy is how copy_object ended for the key last tried, and
\* responded tells whether the response with the counters was sent.
RenameJob(op, pc, selected_files, k, keep_original, success_count, error_count, objects, copy, responded) ==
    [op |-> op, pc |-> pc, selected_files |-> selected_files, k |-> k,
     keep_original |-> keep_original, success_count |-> success_count,
     error_count |-> error_count, objects |-> objects, copy |-> copy,
     responded |-> responded]

\* A faulty loop body that goes on to delete the original whatever
\* copy_object answered; C29 must tell it from the real one.
rename_copy_deleting_anyway(j, outcome) ==
    LET key == j.selected_files[j.k]
    IN IF outcome = "ok"
       THEN [j EXCEPT !.objects = @ \cup {new_key(key)}, !.copy = "ok",
                      !.pc = "delete"]
       ELSE [j EXCEPT !.copy = outcome, !.pc = "delete"]

\* The loop body up to and including s3.copy_object: on success the copy is
\* in the bucket and, with keep_original, the key is done; a ClientError or
\* another exception counts the key as an error and the loop goes on.
rename_copy(j, outcome) ==
    LET key == j.selected_files[j.k]
    IN IF outcome = "ok"
       THEN IF j.keep_original
            THEN [j EXCEPT !.objects = @ \cup {new_key(key)}, !.copy = "ok",
                           !.success_count = @ + 1, !.k = @ + 1]
            ELSE [j EXCEPT !.objects = @ \cup {new_key(key)}, !.copy = "ok",
                           !.pc = "delete"]
       ELSE [j EXCEPT !.copy = outcome, !.error_count = @ + 1, !.k = @ + 1]

\* s3.delete_object of the original and the end of the loop body.
rename_delete(j, outcome) ==
    LET key == j.selected_files[j.k]
    IN IF outcome = "ok"
       THEN [j EXCEPT !.objects = @ \ {key}, !.success_count = @ + 1,
                      !.k = @ + 1, !.pc = "copy"]
       ELSE [j EXCEPT !.error_count = @ + 1, !.k = @ + 1, !.pc = "copy"]

\* The handler reaches its loop, or answers that no files were selected.
RenameStart ==
    /\ job.pc = "done"
    /\ \E op \in RenameOps, selected_files \in SelectedFiles, keep_original \in BOOLEAN :
          JobStep(RenameJob(op, IF selected_files = <<>> THEN "done" ELSE "copy",
                            selected_files, 1, keep_original, 0, 0, BucketKeys,
                            "none", FALSE))

\* copy_object fails on a key the bucket does not hold.
RenameCopy ==
    /\ job.op \in RenameOps
    /\ job.pc = "copy"
    /\ job.k <= Len(job.selected_files)
    /\ \E outcome \in ProviderOutcomes :
          /\ outcome = "ok" => job.selected_files[job.k] \in job.objects
          /\ JobStep(rename_copy(job, outcome))

RenameDelete ==
    /\ job.op \in RenameOps
    /\ job.pc = "delete"
    /\ \E outcome \in ProviderOutcomes : JobStep(rename_delete(job, outcome))

\* The response after the last key: success_count, error_count, errors.
RenameRespond ==
    /\ job.op \in RenameOps
    /\ job.pc = "copy"
    /\ job.k > Len(job.selected_files)
    /\ JobStep([job EXCEPT !.pc = "done", !.responded = TRUE])

NextRename ==
    \/ RenameStart
    \/ RenameCopy
    \/ RenameDelete
    \/ RenameRespond

SpecRename == Init /\ [][NextRename]_vars

----------------------------------------------------------------------------
(* Properties of the session lifecycle *)

\* The requests that reach the gate of a session-gated storage endpoint.
StorageEndpoints ==
    {"list_buckets", "browse_folders", "generate_presigned_url",
     "s3_delete_object", "s3_delete_folder", "s3_create_folder",
     "s3_download_zip", "s3_check_file", "s3_search_file"}

WizardEndpoints ==
    {"wizard_extension_renamer", "wizard_extension_renamer_execute"}

\* Seconds since the session was last accessed.
IdleTime(session_data, t) == t - session_data.last_accessed

\* C1. Round trip: right after a /auth/login answered 200, the response is
\* success with a session id, get_credentials of that id returns a bundle
\* equal to the one the login sent, and /auth/validate of that id answers 200.
C1_RoundTrip ==
    (last.op = "auth_login" /\ last.status = 200) =>
        /\ last.success
        /\ last.issued \in DOMAIN sessions
        /\ get_credentials(sessions, last.issued, now).credentials = last.sent
        /\ auth_validate(sessions, now, AuthBody(TRUE, last.issued)).last.status = 200
        /\ auth_validate(sessions, now, AuthBody(TRUE, last.issued)).last.success

\* A login with a temporary-credentials bundle has just been answered 200
\* while another session was in the store.
C1_Witness ==
    /\ last.op = "auth_login"
    /\ last.status = 200
    /\ last.sent.session_token = "sts-token"
    /\ Cardinality(DOMAIN sessions) = 2
    /\ get_credentials(sessions, last.issued, now).credentials = last.sent

\* C2. Idle expiry at the timeout: a request that resolves a stored session
\* whose idle time is at least 3600 seconds gets no credentials, and the
\* session is removed from the store.
C2_IdleExpiry ==
    [][\A h \in DOMAIN sessions :
          ( /\ IdleTime(sessions[h], now) >= session_timeout
            /\ last'.op \in {"auth_validate", "list_buckets"}
            /\ last'.session_id = h )
          => ( /\ last'.resolved = NoCredentials
               /\ last'.status = 401
               /\ h \notin DOMAIN sessions' )]_vars

\* C5. Invalidate then get: for every session id, live, expired or unknown,
\* get_credentials after invalidate_session returns none; and right after a
\* /auth/logout of an id, get_credentials of it returns none and
\* /auth/validate of it answers 401.
C5_InvalidateThenGet ==
    /\ \A h \in SessionIds :
          get_credentials(invalidate_session(sessions, h), h, now).credentials
              = NoCredentials
    /\ (last.op = "auth_logout" /\ ~Falsy(last.session_id)) =>
          /\ last.session_id \notin DOMAIN sessions
          /\ get_credentials(sessions, last.session_id, now).credentials
                 = NoCredentials
          /\ auth_validate(sessions, now, AuthBody(TRUE, last.session_id)).last.status = 401

\* A logout has just removed a session that was in the store, and another
\* session is still there.
C5_Witness ==
    /\ last.op = "auth_logout"
    /\ last.session_id \in Handles
    /\ last.invalidated = {last.session_id}
    /\ DOMAIN sessions # {}
    /\ auth_validate(sessions, now, AuthBody(TRUE, last.session_id)).last.status = 401

\* C8. Handle uniqueness: the session id a successful login returns is not
\* the key of a session already in the store, so no login replaces a stored
\* session.
C8_HandleUnique ==
    [][(last'.op = "auth_login" /\ last'.status = 200)
          => last'.issued \notin DOMAIN sessions]_vars

\* C10. A /auth/login whose identity check raises ClientError is answered
\* 401 with success false and no session id, and the store is unchanged.
C10_RejectedLogin ==
    [][(last'.op = "auth_login" /\ last'.provider = "ClientError")
          => ( /\ last'.status = 401
               /\ ~last'.success
               /\ last'.issued = None
               /\ sessions' = sessions )]_vars

\* A login rejected by the provider has just been answered while a session
\* was in the store.
C10_Witness ==
    /\ last.op = "auth_login"
    /\ last.provider = "ClientError"
    /\ last.status = 401
    /\ last.sent \notin ProviderAccounts
    /\ DOMAIN sessions # {}

\* C7. No cross-session credential bleed: a request of a gated storage
\* endpoint that reaches the provider carries the id of a stored session and
\* calls the provider with exactly the bundle stored under that id;
\* get_credentials of a stored id returns the bundle stored under it or
\* none; a session enters the store with the bundle its login sent; and no
\* step changes the bundle stored under an id except a login that issues
\* that id.
C7_NoCredentialBleed ==
    [][ /\ (last'.op \in StorageEndpoints /\ last'.provider # "none") =>
              /\ last'.session_id \in DOMAIN sessions
              /\ last'.used = sessions[last'.session_id].credentials
              /\ last'.resolved = sessions[last'.session_id].credentials
        /\ \A h \in DOMAIN sessions :
              get_credentials(sessions, h, now).credentials
                  \in {sessions[h].credentials, NoCredentials}
        /\ \A h \in DOMAIN sessions' \ DOMAIN sessions :
              /\ last'.op = "auth_login"
              /\ last'.issued = h
              /\ sessions'[h].credentials = last'.sent
        /\ \A h \in DOMAIN sessions \cap DOMAIN sessions' :
              sessions'[h].credentials # sessions[h].credentials =>
                  (last'.op = "auth_login" /\ last'.issued = h) ]_vars

\* Two sessions with different bundles are in the store and list_buckets has
\* just called the provider for one of them, with that session's bundle.
C7_Witness ==
    /\ last.op = "list_buckets"
    /\ last.provider = "ok"
    /\ DOMAIN sessions = Handles
    /\ \A h1, h2 \in DOMAIN sessions :
          h1 # h2 => sessions[h1].credentials # sessions[h2].credentials
    /\ last.used = sessions[last.session_id].credentials

\* C11. A /auth/login that lacks access_key or secret_key (no object body,
\* a plain or encrypted body without one of them, an encrypted field that
\* does not decode) is answered 400, calls no provider and leaves the store
\* unchanged.
C11_LoginMissingFields ==
    [][(last'.op = "auth_login" /\ last'.params # "ok")
          => ( /\ last'.status = 400
               /\ ~last'.success
               /\ last'.provider = "none"
               /\ last'.issued = None
               /\ sessions' = sessions )]_vars

\* C12. /auth/validate of an object body answers 200 with success true
\* exactly when the session id names a session of the store whose idle time
\* is below the timeout, and 401 with success false otherwise.
C12_ValidateIffLive ==
    [][(last'.op = "auth_validate" /\ last'.params = "ok") =>
          LET h == last'.session_id
              live == /\ h \in DOMAIN sessions
                      /\ IdleTime(sessions[h], now) < session_timeout
          IN /\ live => (last'.status = 200 /\ last'.success)
             /\ ~live => (last'.status = 401 /\ ~last'.success)]_vars

\* C13. /auth/logout answers 200 with success true for every request.
C13_LogoutAlways200 ==
    [][last'.op = "auth_logout"
          => (last'.status = 200 /\ last'.success)]_vars

\* C17: no revival: a session whose idle time has passed the timeout is
\* invalid for good; a validation or a storage request that carries its
\* handle at any later time is answered 401 and resolves no credentials.
C17_NoRevival ==
    [][\A h \in DOMAIN sessions :
          ( /\ IdleTime(sessions[h], now) > session_timeout
            /\ last'.op \in {"auth_validate", "list_buckets"}
            /\ last'.session_id = h )
          => ( /\ last'.status = 401
               /\ ~last'.success
               /\ last'.resolved = NoCredentials )]_vars

\* C23: sliding expiration: a validation or a storage request that resolves
\* credentials sets last_accessed of the session to the current time, and a
\* request that arrives less than the timeout after the last access resolves
\* the session's credentials however long ago the session was created.
C23_SlidingExpiration ==
    [][\A h \in DOMAIN sessions :
          ( /\ last'.op \in {"auth_validate", "list_buckets"}
            /\ last'.session_id = h )
          => /\ last'.resolved # NoCredentials
                   => ( /\ h \in DOMAIN sessions'
                        /\ sessions'[h].last_accessed = now
                        /\ sessions'[h].created_at = sessions[h].created_at )
             /\ IdleTime(sessions[h], now) < session_timeout
                   => ( /\ last'.resolved = sessions[h].credentials
                        /\ last'.status # 401 )]_vars

\* A session created more than the timeout ago has just been accessed and
\* is live.
C23_Witness ==
    /\ last.op \in {"auth_validate", "list_buckets"}
    /\ last.resolved # NoCredentials
    /\ last.session_id \in DOMAIN sessions
    /\ sessions[last.session_id].last_accessed = now
    /\ now - sessions[last.session_id].created_at > session_timeout

\* C25: uniform rejection: /auth/validate and the storage endpoints answer a
\* missing, an unknown and an expired handle with the same 401 response, and
\* that response is the one /auth/login gives for rejected credentials.
C25_UniformRejection ==
    (last.status = 401 /\ last.op \in StorageEndpoints \cup {"auth_validate", "auth_login"})
        => response_message(last) = "Invalid or expired session"

----------------------------------------------------------------------------
(* Properties of the whole application *)

\* C3. Every session-gated storage endpoint answers a request whose session
\* id is absent or not in the store with 401 and success false, whatever its
\* other fields, and makes no provider call.
C3_StorageGate401 ==
    [][(last'.op \in StorageEndpoints /\ last'.session_id \notin DOMAIN sessions)
          => ( /\ last'.status = 401
               /\ ~last'.success
               /\ last'.provider = "none" )]_vars

\* C4. The extension-rename preview and execute endpoints answer a request
\* whose session id is absent or not in the store with 401 and success
\* false, whatever its content type, selected_files list or other fields.
C4_WizardGate401 ==
    [][(last'.op \in WizardEndpoints /\ last'.session_id \notin DOMAIN sessions)
          => ( /\ last'.status = 401
               /\ ~last'.success
               /\ last'.provider = "none" )]_vars

\* C6. No handler calls the storage provider unless get_credentials resolved
\* the request's session id to credentials, and the call uses exactly those
\* credentials (the identity check of /auth/login is not a storage call).
C6_ProviderBehindGate ==
    (last.provider # "none" /\ last.op # "auth_login") =>
        /\ last.resolved # NoCredentials
        /\ last.used = last.resolved

\* C9. Every session in the store holds a bundle the provider's identity
\* check accepts, and a session is added or replaced only by a /auth/login
\* whose identity check succeeded for the bundle the session holds.
C9_SessionsVerified ==
    [][\A h \in DOMAIN sessions' :
          /\ sessions'[h].credentials \in ProviderAccounts
          /\ ( \/ h \notin DOMAIN sessions
               \/ sessions'[h].credentials # sessions[h].credentials
               \/ sessions'[h].created_at # sessions[h].created_at )
             => ( /\ last'.op = "auth_login"
                  /\ last'.provider = "ok"
                  /\ last'.status = 200
                  /\ last'.issued = h
                  /\ last'.sent = sessions'[h].credentials
                  /\ get_caller_identity(last'.sent, "up") = "ok"
                  /\ sessions'[h].created_at = now )]_vars

\* A verified login has just added a session after the legacy form flow
\* stored its own client and a first session was created.
C9_Witness ==
    /\ last.op = "auth_login"
    /\ last.status = 200
    /\ app_config # NoCredentials
    /\ DOMAIN sessions = Handles
    /\ \A h \in DOMAIN sessions : sessions[h].credentials \in ProviderAccounts

\* The credential strings of a bundle: its access key, secret key and
\* session token, where it has them.
CredentialStrings(credentials) ==
    {credentials.access_key, credentials.secret_key,
     credentials.session_token} \ {None, ""}

\* C15: credentials never travel back: no response of /auth/login,
\* /auth/validate, /auth/logout or of a storage endpoint contains the access
\* key, the secret key or the session token of a bundle in the store.
C15_NoCredentialInResponse ==
    (last.op \in StorageEndpoints \cup {"auth_login", "auth_validate", "auth_logout"})
        => \A h \in DOMAIN sessions :
              response_credentials(last) \cap CredentialStrings(sessions[h].credentials) = {}

\* C24: every session that stays idle for at least the timeout is removed
\* from the store in the end, even if no client presents its handle again:
\* no session stays in the store for ever with an idle time of at least the
\* timeout.
C24_IdleSessionsRemoved ==
    \A h \in Handles :
        []<>( \/ h \notin DOMAIN sessions
              \/ IdleTime(sessions[h], now) < session_timeout )

\* C26: a failure to reach the provider is never reported as an
\* authorization failure: a login that meets one is answered with a response
\* other than the 401 of rejected credentials and creates no session, and an
\* authorized storage request that meets one is never answered 401.
C26_NetworkFailureNotAuthFailure ==
    [][ /\ (last'.op = "auth_login" /\ last'.provider = "error")
            => ( /\ last'.status # 401
                 /\ response_message(last') # "Invalid AWS credentials"
                 /\ ~last'.success
                 /\ last'.issued = None
                 /\ sessions' = sessions )
        /\ (last'.op \in StorageEndpoints /\ last'.provider = "error")
            => last'.status # 401 ]_vars

\* A login has just met a provider that cannot be reached, with a session
\* of an earlier login in the store.
C26_Witness ==
    /\ last.op = "auth_login"
    /\ last.provider = "error"
    /\ last.status = 500
    /\ DOMAIN sessions # {}

\* C30: a provider error or a missing-parameter rejection during an
\* authorized storage request does not invalidate the session: apart from
\* the touch of last_accessed the store is unchanged, and the same handle
\* resolves the same credentials at any time less than the timeout later.
C30_ErrorsKeepSession ==
    [][( /\ last'.op \in StorageEndpoints
         /\ last'.resolved # NoCredentials
         /\ \/ last'.provider \in {"ClientError", "error"}
            \/ last'.params = "missing" )
          => LET h == last'.session_id
             IN /\ h \in DOMAIN sessions
                /\ sessions' = [sessions EXCEPT ![h].last_accessed = now]
                /\ \A d \in {0, session_timeout - 1} :
                      get_credentials(sessions', h, now + d).credentials
                          = sessions[h].credentials]_vars

\* A storage request of a session created earlier has just met a provider
\* error, and the session is in the store.
C30_Witness ==
    /\ last.op \in StorageEndpoints
    /\ last.provider = "ClientError"
    /\ last.resolved # NoCredentials
    /\ last.session_id \in DOMAIN sessions
    /\ sessions[last.session_id].last_accessed = now
    /\ sessions[last.session_id].created_at < now

----------------------------------------------------------------------------
(* Properties of sequential calls of SecureSession *)

\* C16: in every reachable state, after any sequence of create_session,
\* get_credentials, invalidate_session and cleanup_expired_sessions calls,
\* every session in the store was last accessed at or after its creation.
C16_AccessedAfterCreated ==
    \A h \in DOMAIN sessions :
        sessions[h].last_accessed >= sessions[h].created_at

\* A sweep has just removed an expired session and left one that was
\* accessed after its creation.
C16_Witness ==
    /\ last.op = "cleanup_expired_sessions"
    /\ last.invalidated # {}
    /\ \E h \in DOMAIN sessions :
          sessions[h].last_accessed > sessions[h].created_at

\* C18: the sweep is pure housekeeping: each get_credentials returns what it
\* returns in the same sequence of calls and clock advances with the
\* cleanup_expired_sessions calls left out.
C18_SweepIsHousekeeping ==
    [][last'.op = "get_credentials"
          => last'.resolved = get_credentials(shadow, last'.session_id, now).credentials]_vars

\* C21: cleanup_expired_sessions removes every session whose idle time is at
\* least the timeout and no session whose idle time is below it.
C21_SweepRemovesExpired ==
    [][last'.op = "cleanup_expired_sessions"
          => \A h \in DOMAIN sessions :
                /\ IdleTime(sessions[h], now) >= session_timeout
                      => h \notin DOMAIN sessions'
                /\ IdleTime(sessions[h], now) < session_timeout
                      => (h \in DOMAIN sessions' /\ sessions'[h] = sessions[h])]_vars

\* C28: frame of the session operations: create_session, get_credentials
\* and invalidate_session leave every session other than the one under the
\* handle they return or receive as it was; get_credentials with an empty or
\* unknown handle changes nothing; and a session that stays in the store
\* keeps its bundle and its created_at.
C28_Frame ==
    [][last'.op \in {"create_session", "get_credentials", "invalidate_session"}
          => LET h == IF last'.op = "create_session" THEN last'.issued
                      ELSE last'.session_id
             IN /\ \A k \in DOMAIN sessions \ {h} :
                      k \in DOMAIN sessions' /\ sessions'[k] = sessions[k]
                /\ DOMAIN sessions' \subseteq DOMAIN sessions \cup {h}
                /\ (last'.op = "get_credentials" /\ h \notin DOMAIN sessions)
                      => sessions' = sessions
                /\ (last'.op = "get_credentials" /\ h \in DOMAIN sessions')
                      => ( /\ sessions'[h].credentials = sessions[h].credentials
                           /\ sessions'[h].created_at = sessions[h].created_at )]_vars

\* An invalidate_session has just removed one session and left another in
\* the store.
C28_Witness ==
    /\ last.op = "invalidate_session"
    /\ last.invalidated = {last.session_id}
    /\ DOMAIN sessions # {}

----------------------------------------------------------------------------
(* Properties of concurrent calls of SecureSession *)

\* C22: cleanup_expired_sessions completes without error, and removes every
\* session that was expired when its scan began, whatever create_session,
\* invalidate_session or an expiring get_credentials do to the store during
\* the scan.
C22_SweepCompletes ==
    /\ sweep.outcome \notin {"RuntimeError", "KeyError"}
    /\ sweep.outcome = "returned"
          => \A h \in sweep.began :
                \/ h \notin DOMAIN sessions
                \/ sessions[h].created_at >= sweep.current_time

\* C14. get_credentials never raises: whatever the other threads do, a call
\* ends by returning a bundle or none.
C14_GetNeverRaises ==
    \A i \in Threads :
        threads[i].fn = "get_credentials" => threads[i].outcome # "KeyError"

\* C19. A successful get_credentials leaves the session it refreshed in the
\* store, with last_accessed at the time of the call and resolving to the
\* bundle returned, unless invalidate_session was called for the session
\* id by a request (or the id was issued anew) in the meantime.
C19_TouchKeepsSession ==
    [][\A i \in Threads :
          (threads[i].pc = "touch" /\ threads'[i].pc = "done") =>
              LET ref == threads[i].ref
                  session_id == threads[i].session_id
              IN \/ /\ ref.where = "orphan"
                    /\ orphans[ref.orphan].removed_by
                           \in {"invalidate_session", "create_session"}
                 \/ /\ session_id \in DOMAIN sessions'
                    /\ sessions'[session_id].last_accessed = now
                    /\ sessions'[session_id].credentials = threads'[i].value
                    /\ get_credentials(sessions', session_id, now).credentials
                           = threads'[i].value]_vars

\* C20. invalidate_session never raises and leaves the session id absent:
\* every call that ends, made by a request or by get_credentials for an
\* expired session, returns, and the id is not in the store then.
C20_InvalidateNeverRaises ==
    [][\A i \in Threads :
          ( /\ threads'[i] # threads[i]
            /\ threads'[i].pc = "done"
            /\ \/ threads'[i].fn = "invalidate_session"
               \/ threads[i].pc \in {"invalidate", "delete"} )
          => ( /\ threads'[i].outcome = "returned"
               /\ threads'[i].raised_in = "none"
               /\ threads'[i].session_id \notin DOMAIN sessions' )]_vars

----------------------------------------------------------------------------
(* Properties of the handlers that work through a list of keys *)

RECURSIVE ConfirmedDeleted(_)
\* The number of keys the provider confirmed deleted over the batches.
ConfirmedDeleted(blocks) ==
    IF blocks = <<>> THEN 0
    ELSE Head(blocks).deleted + ConfirmedDeleted(Tail(blocks))

\* The keys the provider answered it could not delete.
NotDeleted(blocks) ==
    UNION {(blocks[b].lo + blocks[b].deleted)..blocks[b].hi : b \in DOMAIN blocks}

\* C27: s3-delete-folder submits the listed keys in blocks of at most 1000,
\* each key in exactly one block; its response names the keys the provider
\* failed to delete, and its deleted_count is the number of keys the
\* provider confirmed deleted over all blocks.
C27_DeleteFolderBlocks ==
    (job.op = "s3_delete_folder" /\ job.pc = "done" /\ job.response.success)
        => /\ \A b \in DOMAIN job.blocks :
                 job.blocks[b].hi - job.blocks[b].lo + 1 <= BlockSize
           /\ \A k \in 1..job.n :
                 Cardinality({b \in DOMAIN job.blocks :
                                 job.blocks[b].lo <= k /\ k <= job.blocks[b].hi}) = 1
           /\ job.response.has_deleted_count
           /\ job.response.deleted_count = ConfirmedDeleted(job.blocks)
           /\ job.response.errors = NotDeleted(job.blocks)

\* C29: in the rename loop the original of a key is deleted only after
\* copy_object to the new key succeeded and only when keep_original is
\* false; a failed copy leaves the bucket as it was, counts the key as an
\* error and the loop goes on with the next key; and in the response
\* success_count + error_count is the number of selected keys.
C29_DeleteAfterCopy ==
    [][(job.op \in RenameOps /\ job.pc # "done" /\ job'.op \in RenameOps) =>
          LET key == job.selected_files[job.k]
          IN /\ job.objects \ job'.objects # {}
                   => ( /\ job.objects \ job'.objects = {key}
                        /\ ~job.keep_original
                        /\ job.copy = "ok"
                        /\ new_key(key) \in job.objects )
             /\ ( /\ job.pc = "copy"
                  /\ job.k <= Len(job.selected_files)
                  /\ job'.copy \in {"ClientError", "error"} )
                   => ( /\ job'.objects = job.objects
                        /\ job'.error_count = job.error_count + 1
                        /\ job'.success_count = job.success_count
                        /\ job'.k = job.k + 1
                        /\ job'.pc = "copy" )
             /\ job'.responded
                   => job'.success_count + job'.error_count
                          = Len(job'.selected_files)]_vars

\* The response of a run that renamed one key, deleting its original, and
\* failed on another.
C29_Witness ==
    /\ job.op \in RenameOps
    /\ job.responded
    /\ ~job.keep_original
    /\ job.success_count = 1
    /\ job.error_count = 1
    /\ BucketKeys \ job.objects # {}

====
